---- MODULE Spec2Model ----
(***************************************************************************)
(* Model of torchao/float8/config.py: the float8 training configuration    *)
(* records (CastConfig, Float8LinearConfig), their __post_init__           *)
(* validation/defaulting passes and the recipe factory from_recipe_name.   *)
(*                                                                         *)
(* Python objects are modelled by a heap: `heap` is the sequence of all    *)
(* CastConfig objects ever created, a reference is an index into it, and   *)
(* 0 is Python's None reference.  object.__setattr__ on a CastConfig is an *)
(* in-place update of its heap cell, visible through every alias.          *)
(***************************************************************************)
EXTENDS Integers, Sequences, FiniteSets, TLC

VARIABLES
    heap,         \* all CastConfig objects, by reference
    locals,       \* references to the CastConfig objects the caller created
    configs,      \* the Float8LinearConfig objects the caller holds
    last          \* the last call made, its arguments and its outcome

vars == <<heap, locals, configs, last>>

\* ---------------------------------------------------------------- bounds
MaxObjs == 1      \* CastConfig objects the caller creates itself
MaxConfigs == 2   \* Float8LinearConfig objects constructed successfully
MaxKwargs == 1    \* descriptor keyword arguments of one constructor call, in Spec
MaxKwargsWide == 2  \* the same, in SpecWide

\* ------------------------------------------------------------ data model
None == "None"
NoRef == 0

DYNAMIC == "dynamic"
DISABLED == "disabled"
ScalingType == {DYNAMIC, DISABLED}

TENSORWISE == "tensorwise"
AXISWISE == "axiswise"
ScalingGranularity == {TENSORWISE, AXISWISE}

\* the 8-bit floating-point torch dtypes
Float8Dtypes == {"float8_e4m3fn", "float8_e5m2", "float8_e4m3fnuz", "float8_e5m2fnuz"}
\* the dtypes a caller passes as target_dtype
DtypeInputs == {None, "float8_e4m3fn", "float8_e5m2", "float16", "int8"}

is_floating_point(d) == d \in Float8Dtypes \cup {"float16"}
itemsize(d) == IF d = "float16" THEN 2 ELSE 1

\* Float8TypeConfig: the preferred type pair.  The class attributes are the
\* OCP variants; __post_init__ replaces them by the fnuz pair on ROCm MI300
\* only, a platform this model does not run on.
type_config == [e4m3_dtype |-> "float8_e4m3fn", e5m2_dtype |-> "float8_e5m2"]

e4m3_dtype == type_config.e4m3_dtype
e5m2_dtype == type_config.e5m2_dtype

\* ScalingType.short_str / ScalingGranularity.short_str
ScalingTypeShortStr(t) == IF t = DYNAMIC THEN "dyn" ELSE "dis"
ScalingGranularityShortStr(g) == IF g = TENSORWISE THEN "ten" ELSE "axs"

\* the dataclass CastConfig with its field defaults
CastConfig(st, g, td) ==
    [scaling_type |-> st, scaling_granularity |-> g, target_dtype |-> td]

\* CastConfig.__post_init__ without the itemsize test
CastConfigPostInitAnyFloat(c) ==
    IF c.scaling_granularity = AXISWISE /\ c.scaling_type # DYNAMIC
    THEN "only dynamic scaling type is supported for axiswise scaling granularity"
    ELSE IF ~(c.target_dtype = None \/ is_floating_point(c.target_dtype))
         THEN "must specify a 8-bit floating-point dtype"
         ELSE ""

\* CastConfig.__post_init__: "" when both assertions pass, else the message
CastConfigPostInit(c) ==
    IF c.scaling_granularity = AXISWISE /\ c.scaling_type # DYNAMIC
    THEN "only dynamic scaling type is supported for axiswise scaling granularity"
    ELSE IF ~(c.target_dtype = None
              \/ (is_floating_point(c.target_dtype) /\ itemsize(c.target_dtype) = 1))
         THEN "must specify a 8-bit floating-point dtype"
         ELSE ""

\* CastConfig.short_str: the two-entry dtype table, KeyError outside it
CastConfigShortStr(c) ==
    IF c.target_dtype \notin {e4m3_dtype, e5m2_dtype}
    THEN [error |-> "KeyError", label |-> ""]
    ELSE [error |-> "",
          label |-> ScalingTypeShortStr(c.scaling_type) \o "_"
                    \o ScalingGranularityShortStr(c.scaling_granularity) \o "_"
                    \o (IF c.target_dtype = e4m3_dtype THEN "e4m3" ELSE "e5m2")]

Float8GemmConfig(fast) == [use_fast_accum |-> fast]

\* class-level default descriptors of Float8LinearConfig: three CastConfig()
\* objects made once, when the class body is executed
DefaultInputRef == 1
DefaultWeightRef == 2
DefaultGradOutputRef == 3

PrimaryFields == {"cast_config_input", "cast_config_weight", "cast_config_grad_output"}
OverrideFields == {"cast_config_input_for_grad_weight",
                   "cast_config_weight_for_grad_input",
                   "cast_config_grad_output_for_grad_weight"}
CastFields == PrimaryFields \cup OverrideFields

\* keyword arguments of one call: a reference per descriptor field, NoRef
\* for a field the caller leaves out
NoKwargs == [f \in CastFields |-> NoRef]

\* the generated __init__: every field takes its argument or its default
Float8LinearConfigInit(kw, fsdp, force, round) ==
    [cast_config_input |->
        IF kw.cast_config_input = NoRef THEN DefaultInputRef ELSE kw.cast_config_input,
     cast_config_input_for_grad_weight |-> kw.cast_config_input_for_grad_weight,
     cast_config_weight |->
        IF kw.cast_config_weight = NoRef THEN DefaultWeightRef ELSE kw.cast_config_weight,
     cast_config_weight_for_grad_input |-> kw.cast_config_weight_for_grad_input,
     cast_config_grad_output |->
        IF kw.cast_config_grad_output = NoRef THEN DefaultGradOutputRef
        ELSE kw.cast_config_grad_output,
     cast_config_grad_output_for_grad_weight |-> kw.cast_config_grad_output_for_grad_weight,
     gemm_config_output |-> Float8GemmConfig(TRUE),
     gemm_config_grad_input |-> Float8GemmConfig(FALSE),
     gemm_config_grad_weight |-> Float8GemmConfig(FALSE),
     enable_fsdp_float8_all_gather |-> fsdp,
     pad_inner_dim |-> FALSE,
     emulate |-> FALSE,
     force_recompute_fp8_weight_in_bwd |-> force,
     round_scales_to_power_of_2 |-> round]

\* ------------------------------------------- Float8LinearConfig.__post_init__
\* lines 214-227: an override left at None becomes an alias of its primary
PopulateOverrides(c) ==
    [c EXCEPT
        !.cast_config_input_for_grad_weight =
            IF @ = NoRef THEN c.cast_config_input ELSE @,
        !.cast_config_weight_for_grad_input =
            IF @ = NoRef THEN c.cast_config_weight ELSE @,
        !.cast_config_grad_output_for_grad_weight =
            IF @ = NoRef THEN c.cast_config_grad_output ELSE @]

\* the FSDP check reading the weight override instead of the weight primary
FsdpCheckOnOverride(h, c) ==
    h[c.cast_config_weight_for_grad_input].scaling_granularity # TENSORWISE
        => ~c.enable_fsdp_float8_all_gather

\* lines 230-233: TRUE when the assertion passes
FsdpCheck(h, c) ==
    h[c.cast_config_weight].scaling_granularity # TENSORWISE
        => ~c.enable_fsdp_float8_all_gather

\* lines 250-252 for one gemm: both flags are read from cc1
OperandPrecisionOk(h, cc1, cc2) ==
    LET is_disabled_1 == h[cc1].scaling_type = DISABLED
        is_disabled_2 == h[cc1].scaling_type = DISABLED
    IN  is_disabled_1 = is_disabled_2

\* lines 245-254: the name of the first gemm whose assertion fails, or None
OperandPrecisionCheck(h, c) ==
    IF ~OperandPrecisionOk(h, c.cast_config_input, c.cast_config_weight)
    THEN "output"
    ELSE IF ~OperandPrecisionOk(h, c.cast_config_grad_output,
                                c.cast_config_weight_for_grad_input)
    THEN "grad_input"
    ELSE IF ~OperandPrecisionOk(h, c.cast_config_input_for_grad_weight,
                                c.cast_config_grad_output_for_grad_weight)
    THEN "grad_weight"
    ELSE None

\* the operand step without its assertion
ResolveTargetDtypeUnchecked(h, cc1, cc2, default_dtype) ==
    LET h1 == IF h[cc1].target_dtype = None
              THEN [h EXCEPT ![cc1].target_dtype = default_dtype] ELSE h
        h2 == IF h1[cc2].target_dtype = None
              THEN [h1 EXCEPT ![cc2].target_dtype = default_dtype] ELSE h1
    IN  [heap |-> h2, ok |-> TRUE]

\* the operand step comparing only dtypes that were both set on entry
ResolveTargetDtypeLenient(h, cc1, cc2, default_dtype) ==
    LET h1 == IF h[cc1].target_dtype = None
              THEN [h EXCEPT ![cc1].target_dtype = default_dtype] ELSE h
        h2 == IF h1[cc2].target_dtype = None
              THEN [h1 EXCEPT ![cc2].target_dtype = default_dtype] ELSE h1
    IN  [heap |-> h2,
         ok |-> \/ h[cc1].target_dtype = None
                \/ h[cc2].target_dtype = None
                \/ h2[cc1].target_dtype = h2[cc2].target_dtype]

\* the operand step writing the default over a dtype that is already set
ResolveTargetDtypeOverwrite(h, cc1, cc2, default_dtype) ==
    LET h1 == [h EXCEPT ![cc1].target_dtype = default_dtype]
        h2 == [h1 EXCEPT ![cc2].target_dtype = default_dtype]
    IN  [heap |-> h2, ok |-> h2[cc1].target_dtype = h2[cc2].target_dtype]

\* lines 262-268 for one operand: default the unset dtypes in place, then
\* compare
ResolveTargetDtype(h, cc1, cc2, default_dtype) ==
    LET h1 == IF h[cc1].target_dtype = None
              THEN [h EXCEPT ![cc1].target_dtype = default_dtype] ELSE h
        h2 == IF h1[cc2].target_dtype = None
              THEN [h1 EXCEPT ![cc2].target_dtype = default_dtype] ELSE h1
    IN  [heap |-> h2, ok |-> h2[cc1].target_dtype = h2[cc2].target_dtype]

SameDtypeError(operand_name) ==
    operand_name \o " must be cast to the same dtype in both matmuls it's used in"

\* lines 256-268: the loop over the three operands; it stops at the first
\* failing assertion and the writes made until then stay
ResolveTargetDtypes(h, c) ==
    LET r1 == ResolveTargetDtype(h, c.cast_config_input,
                                 c.cast_config_input_for_grad_weight, e4m3_dtype)
        r2 == ResolveTargetDtype(r1.heap, c.cast_config_weight,
                                 c.cast_config_weight_for_grad_input, e4m3_dtype)
        r3 == ResolveTargetDtype(r2.heap, c.cast_config_grad_output,
                                 c.cast_config_grad_output_for_grad_weight, e5m2_dtype)
    IN  IF ~r1.ok THEN [heap |-> r1.heap, error |-> SameDtypeError("input")]
        ELSE IF ~r2.ok THEN [heap |-> r2.heap, error |-> SameDtypeError("weight")]
        ELSE IF ~r3.ok THEN [heap |-> r3.heap, error |-> SameDtypeError("grad_output")]
        ELSE [heap |-> r3.heap, error |-> ""]

FsdpError == "enable_fsdp_float8_all_gather only supports tensorwise scaling granularity"
PrecisionError(gemm_name) == "incompatible operand precision for " \o gemm_name

\* lines 207-273, the whole pass over the object c with the heap h:
\* the object as the pass leaves it, the heap, the assertion message ("" when
\* none failed) and whether the deprecation warning was logged
PostInit(h, c) ==
    LET c1 == PopulateOverrides(c)
        gemm == OperandPrecisionCheck(h, c1)
        r == ResolveTargetDtypes(h, c1)
    IN  IF ~FsdpCheck(h, c1)
        THEN [cfg |-> c1, heap |-> h, error |-> FsdpError, warned |-> FALSE]
        ELSE IF gemm # None
        THEN [cfg |-> c1, heap |-> h, error |-> PrecisionError(gemm), warned |-> FALSE]
        ELSE IF r.error # ""
        THEN [cfg |-> c1, heap |-> r.heap, error |-> r.error, warned |-> FALSE]
        ELSE [cfg |-> c1, heap |-> r.heap, error |-> "",
              warned |-> c1.force_recompute_fp8_weight_in_bwd]

\* ------------------------------------------------------ from_recipe_name
\* the members of the enum Float8LinearRecipeName, in definition order;
\* a member is named by its Python name
Float8LinearRecipeName == << "TENSORWISE", "ROWWISE", "ROWWISE_WITH_GW_HP" >>

\* member.value
RecipeValue(member) ==
    CASE member = "TENSORWISE" -> "tensorwise"
      [] member = "ROWWISE" -> "rowwise"
      [] member = "ROWWISE_WITH_GW_HP" -> "rowwise_with_gw_hp"

\* the list of the member names instead of the member values
ValidNamesByMemberName == Float8LinearRecipeName

\* line 284: [n.value for n in Float8LinearRecipeName]
ValidNames == [i \in DOMAIN Float8LinearRecipeName |-> RecipeValue(Float8LinearRecipeName[i])]

\* line 288: Float8LinearRecipeName(recipe_name), the lookup by value, which
\* raises ValueError for a value no member has
RecipeFromValue(v) ==
    LET members == {Float8LinearRecipeName[i] : i \in DOMAIN Float8LinearRecipeName}
    IN  IF \E member \in members : RecipeValue(member) = v
        THEN CHOOSE member \in members : RecipeValue(member) = v
        ELSE "ValueError"

\* an argument of from_recipe_name: a Python value tagged with its type
StrArg(s) == [type |-> "str", v |-> s]
EnumArg(member) == [type |-> "Float8LinearRecipeName", v |-> member]

\* lines 283-288: the name check and the conversion of a string argument
NormalizeRecipeName(recipe_name) ==
    IF recipe_name.type = "str"
    THEN IF ~(\E i \in DOMAIN ValidNames : ValidNames[i] = recipe_name.v)
         THEN [error |-> "recipe_name not in valid names", recipe_name |-> recipe_name]
         ELSE IF RecipeFromValue(recipe_name.v) = "ValueError"
         THEN [error |-> "ValueError", recipe_name |-> recipe_name]
         ELSE [error |-> "", recipe_name |-> EnumArg(RecipeFromValue(recipe_name.v))]
    ELSE [error |-> "", recipe_name |-> recipe_name]

\* the CastConfig objects a recipe creates, in creation order
\* lines 294-302
RowwiseCastConfigs ==
    << CastConfig(DYNAMIC, AXISWISE, e4m3_dtype),      \* cc_i
       CastConfig(DYNAMIC, AXISWISE, e4m3_dtype),      \* cc_w
       CastConfig(DYNAMIC, AXISWISE, e4m3_dtype) >>    \* cc_go

\* the gw_hp descriptors with cc_go_gw typed e5m2
RowwiseWithGwHpCastConfigsE5m2 ==
    << CastConfig(DYNAMIC, AXISWISE, None),
       CastConfig(DYNAMIC, AXISWISE, None),
       CastConfig(DYNAMIC, AXISWISE, e4m3_dtype),
       CastConfig(DYNAMIC, TENSORWISE, None),
       CastConfig(DISABLED, TENSORWISE, None),
       CastConfig(DISABLED, TENSORWISE, e5m2_dtype) >>

\* lines 314-327
RowwiseWithGwHpCastConfigs ==
    << CastConfig(DYNAMIC, AXISWISE, None),            \* cc_i
       CastConfig(DYNAMIC, AXISWISE, None),            \* cc_w
       CastConfig(DYNAMIC, AXISWISE, e4m3_dtype),      \* cc_go
       CastConfig(DYNAMIC, TENSORWISE, None),          \* cc_w_gi
       CastConfig(DISABLED, TENSORWISE, None),         \* cc_i_gw
       CastConfig(DISABLED, TENSORWISE, e4m3_dtype) >> \* cc_go_gw

RecipeCastConfigs(member) ==
    CASE member = "ROWWISE" -> RowwiseCastConfigs
      [] member = "ROWWISE_WITH_GW_HP" -> RowwiseWithGwHpCastConfigs
      [] OTHER -> << >>

\* the keyword arguments a recipe passes, its objects living at base+1..
RecipeKwargs(member, base) ==
    CASE member = "ROWWISE" ->
            [NoKwargs EXCEPT !.cast_config_input = base + 1,
                             !.cast_config_weight = base + 2,
                             !.cast_config_grad_output = base + 3]
      [] member = "ROWWISE_WITH_GW_HP" ->
            [NoKwargs EXCEPT !.cast_config_input = base + 1,
                             !.cast_config_weight = base + 2,
                             !.cast_config_grad_output = base + 3,
                             !.cast_config_weight_for_grad_input = base + 4,
                             !.cast_config_input_for_grad_weight = base + 5,
                             !.cast_config_grad_output_for_grad_weight = base + 6]
      [] OTHER -> NoKwargs

\* the first failing CastConfig.__post_init__ among the objects, "" if none
CastConfigsError(objs) ==
    IF \A i \in DOMAIN objs : CastConfigPostInit(objs[i]) = ""
    THEN ""
    ELSE CastConfigPostInit(
            objs[CHOOSE i \in DOMAIN objs :
                    /\ CastConfigPostInit(objs[i]) # ""
                    /\ \A j \in 1..(i - 1) : CastConfigPostInit(objs[j]) = ""])

\* lines 276-339 on the heap h: the heap after the call, the error ("" for a
\* normal return) and the configuration returned
FromRecipeNameResult(h, recipe_name) ==
    LET n == NormalizeRecipeName(recipe_name)
        member == n.recipe_name.v
        objs == RecipeCastConfigs(member)
        r == PostInit(h \o objs,
                      Float8LinearConfigInit(RecipeKwargs(member, Len(h)),
                                             FALSE, FALSE, member = "ROWWISE"))
    IN  IF n.error # ""
        THEN [heap |-> h, error |-> n.error, warned |-> FALSE, result |-> << >>]
        ELSE IF ~(n.recipe_name.type = "Float8LinearRecipeName"
                  /\ \E i \in DOMAIN Float8LinearRecipeName :
                         Float8LinearRecipeName[i] = member)
        THEN [heap |-> h, error |-> "unknown recipe_name", warned |-> FALSE,
              result |-> << >>]
        ELSE IF CastConfigsError(objs) # ""
        THEN [heap |-> h, error |-> CastConfigsError(objs), warned |-> FALSE,
              result |-> << >>]
        ELSE [heap |-> r.heap, error |-> r.error, warned |-> r.warned,
              result |-> IF r.error = "" THEN <<r.cfg>> ELSE << >>]

\* ------------------------------------------------------------------ state
Init ==
    /\ heap = << CastConfig(DYNAMIC, TENSORWISE, None),
                 CastConfig(DYNAMIC, TENSORWISE, None),
                 CastConfig(DYNAMIC, TENSORWISE, None) >>
    /\ locals = << >>
    /\ configs = << >>
    /\ last = [op |-> "import", error |-> ""]

Range(s) == {s[i] : i \in DOMAIN s}

\* the CastConfig objects a caller can name: the three class-level defaults
\* and the objects it created
Pool == {DefaultInputRef, DefaultWeightRef, DefaultGradOutputRef} \cup Range(locals)

\* what reading a descriptor through the None reference stands for
NoDescriptor ==
    [scaling_type |-> None, scaling_granularity |-> None, target_dtype |-> None]

\* the descriptors an object holds, by value
Descriptors(h, c) ==
    [f \in CastFields |-> IF c[f] = NoRef THEN NoDescriptor ELSE h[c[f]]]

\* CastConfig(scaling_type=st, scaling_granularity=g, target_dtype=td)
NewCastConfig(st, g, td) ==
    LET c == CastConfig(st, g, td)
        err == CastConfigPostInit(c)
    IN  /\ Len(locals) < MaxObjs
        /\ IF err = ""
           THEN /\ heap' = Append(heap, c)
                /\ locals' = Append(locals, Len(heap) + 1)
           ELSE UNCHANGED <<heap, locals>>
        /\ last' = [op |-> "CastConfig", scaling_type |-> st,
                    scaling_granularity |-> g, target_dtype |-> td,
                    error |-> err]
        /\ UNCHANGED configs

\* Float8LinearConfig(**kw, enable_fsdp_float8_all_gather=fsdp,
\*                    force_recompute_fp8_weight_in_bwd=force); with `keep` the
\* caller stores the object returned, else it lets it go out of scope.
\* `supplied` is what __post_init__ starts from, `returned` what it leaves.
Construct(kw, fsdp, force, keep) ==
    LET c0 == Float8LinearConfigInit(kw, fsdp, force, FALSE)
        r == PostInit(heap, c0)
    IN  /\ keep => Len(configs) < MaxConfigs
        /\ heap' = r.heap
        /\ configs' = IF keep /\ r.error = "" THEN Append(configs, r.cfg) ELSE configs
        /\ last' = [op |-> "Float8LinearConfig", kwargs |-> kw,
                    supplied |-> Descriptors(heap, c0),
                    enable_fsdp_float8_all_gather |-> fsdp,
                    force_recompute_fp8_weight_in_bwd |-> force,
                    error |-> r.error, warned |-> r.warned,
                    returned |-> IF r.error = ""
                                 THEN << Descriptors(r.heap, r.cfg) >> ELSE << >>]
        /\ UNCHANGED locals

\* keyword arguments naming at most k descriptor fields, each a reference
\* drawn from refs
KwargsSets(k, refs) ==
    UNION { { [f \in CastFields |-> IF f \in S THEN g[f] ELSE NoRef] : g \in [S -> refs] } :
            S \in {T \in SUBSET CastFields : Cardinality(T) <= k} }

\* Float8LinearConfig.from_recipe_name(recipe_name), the result stored
FromRecipeName(recipe_name) ==
    LET r == FromRecipeNameResult(heap, recipe_name)
    IN  /\ Len(configs) < MaxConfigs
        /\ heap' = r.heap
        /\ configs' = configs \o r.result
        /\ last' = [op |-> "from_recipe_name", recipe_name |-> recipe_name,
                    error |-> r.error, warned |-> r.warned,
                    valid_names |-> IF r.error = "recipe_name not in valid names"
                                    THEN ValidNames ELSE << >>,
                    returned |-> IF r.error = ""
                                 THEN << Descriptors(r.heap, r.result[1]) >> ELSE << >>,
                    round_scales_to_power_of_2 |->
                        r.error = "" /\ r.result[1].round_scales_to_power_of_2,
                    enable_fsdp_float8_all_gather |->
                        r.error = "" /\ r.result[1].enable_fsdp_float8_all_gather]
        /\ UNCHANGED locals

\* the arguments from_recipe_name is called with
RecipeArgs ==
    {EnumArg(Float8LinearRecipeName[i]) : i \in DOMAIN Float8LinearRecipeName}
    \cup {StrArg(s) : s \in {"tensorwise", "rowwise", "rowwise_with_gw_hp",
                             "not_a_real_recipe", "TENSORWISE"}}
    \cup {[type |-> "NoneType", v |-> None]}

\* cfg.__post_init__() run again on a configuration the caller holds
Rerun(i) ==
    LET r == PostInit(heap, configs[i])
    IN  /\ heap' = r.heap
        /\ configs' = [configs EXCEPT ![i] = r.cfg]
        /\ last' = [op |-> "__post_init__", index |-> i,
                    error |-> r.error, warned |-> r.warned]
        /\ UNCHANGED locals

\* heap[ref].short_str()
ShortStr(ref) ==
    LET r == CastConfigShortStr(heap[ref])
    IN  /\ last' = [op |-> "short_str", ref |-> ref,
                    error |-> r.error, label |-> r.label]
        /\ UNCHANGED <<heap, locals, configs>>

\* a caller that keeps every configuration it makes, passes up to MaxKwargs
\* descriptors in one call and sets the deprecated flag only in calls without
\* descriptors
Next ==
    \/ \E st \in ScalingType, g \in ScalingGranularity, td \in DtypeInputs :
          NewCastConfig(st, g, td)
    \/ \E kw \in KwargsSets(MaxKwargs, Pool), fsdp \in BOOLEAN :
          Construct(kw, fsdp, FALSE, TRUE)
    \/ \E fsdp \in BOOLEAN : Construct(NoKwargs, fsdp, TRUE, TRUE)
    \/ \E recipe_name \in RecipeArgs : FromRecipeName(recipe_name)
    \/ \E i \in DOMAIN configs : Rerun(i)
    \/ \E ref \in Pool : ShortStr(ref)

Spec == Init /\ [][Next]_vars

\* a caller that passes only descriptors it created itself, up to
\* MaxKwargsWide of them in one call, and keeps none of the configurations
NextWide ==
    \/ \E st \in ScalingType, g \in ScalingGranularity, td \in DtypeInputs :
          NewCastConfig(st, g, td)
    \/ \E kw \in KwargsSets(MaxKwargsWide, Range(locals)),
          fsdp \in BOOLEAN, force \in BOOLEAN :
          Construct(kw, fsdp, force, FALSE)

SpecWide == Init /\ [][NextWide]_vars

\* ================================================================ claims
IsConstruct == last.op = "Float8LinearConfig"
IsRecipeCall == last.op = "from_recipe_name"

Operands == {"input", "weight", "grad_output"}
Gemms == {"output", "grad_input", "grad_weight"}

PrimaryOf(o) ==
    CASE o = "input" -> "cast_config_input"
      [] o = "weight" -> "cast_config_weight"
      [] o = "grad_output" -> "cast_config_grad_output"

OverrideOf(o) ==
    CASE o = "input" -> "cast_config_input_for_grad_weight"
      [] o = "weight" -> "cast_config_weight_for_grad_input"
      [] o = "grad_output" -> "cast_config_grad_output_for_grad_weight"

PlatformDefault(o) == IF o = "grad_output" THEN e5m2_dtype ELSE e4m3_dtype

\* the two descriptor fields a gemm reads
GemmOperands(g) ==
    CASE g = "output" -> <<"cast_config_input", "cast_config_weight">>
      [] g = "grad_input" ->
            <<"cast_config_grad_output", "cast_config_weight_for_grad_input">>
      [] g = "grad_weight" ->
            <<"cast_config_input_for_grad_weight",
              "cast_config_grad_output_for_grad_weight">>

\* the descriptor the last constructor call was given for field f, as it was
\* when the call was made; an override left out stands for its primary
GivenFor(f) ==
    IF last.supplied[f] # NoDescriptor THEN last.supplied[f]
    ELSE last.supplied[PrimaryOf(CHOOSE o \in Operands : OverrideOf(o) = f)]

MixedPrecision(g) ==
    (GivenFor(GemmOperands(g)[1]).scaling_type = DISABLED)
        # (GivenFor(GemmOperands(g)[2]).scaling_type = DISABLED)

\* C1 (as claimed): a constructor call in which exactly one operand of a gemm
\* is DISABLED fails, with the 'incompatible operand precision' error of a
\* gemm so mixed (or on the FSDP check that runs before); and a call in which
\* no gemm is mixed does not fail with that error.
C1_MixedPrecisionRejected ==
    IsConstruct =>
        /\ \A g \in Gemms :
              MixedPrecision(g) =>
                  last.error \in {FsdpError}
                      \cup {PrecisionError(m) : m \in {n \in Gemms : MixedPrecision(n)}}
        /\ (\A g \in Gemms : ~MixedPrecision(g)) =>
              last.error \notin {PrecisionError(m) : m \in Gemms}

\* both descriptors of operand o were given with a target dtype, and the
\* two dtypes differ
ExplicitMismatch(o) ==
    /\ GivenFor(PrimaryOf(o)).target_dtype # None
    /\ GivenFor(OverrideOf(o)).target_dtype # None
    /\ GivenFor(PrimaryOf(o)).target_dtype # GivenFor(OverrideOf(o)).target_dtype

\* every returned configuration has, per operand, a primary and an override
\* descriptor with one and the same target dtype, which is set
SameDtypeReturned ==
    (IsConstruct /\ last.error = "") =>
        /\ Len(last.returned) = 1
        /\ \A o \in Operands :
              /\ last.returned[1][PrimaryOf(o)] # NoDescriptor
              /\ last.returned[1][OverrideOf(o)] # NoDescriptor
              /\ last.returned[1][PrimaryOf(o)].target_dtype # None
              /\ last.returned[1][PrimaryOf(o)].target_dtype
                    = last.returned[1][OverrideOf(o)].target_dtype

\* C2 (as claimed): every returned configuration has equal, set target
\* dtypes per operand, and a call given different explicit dtypes for an
\* operand fails with the 'must be cast to the same dtype' error of an
\* operand so given.
C2_SameDtypeOrOperandError ==
    /\ SameDtypeReturned
    /\ IsConstruct =>
          \A o \in Operands :
              ExplicitMismatch(o) =>
                  last.error \in {SameDtypeError(m) :
                                    m \in {n \in Operands : ExplicitMismatch(n)}}

\* the operands the pass resolves before operand o
EarlierOperands(o) ==
    CASE o = "input" -> {}
      [] o = "weight" -> {"input"}
      [] o = "grad_output" -> {"input", "weight"}

\* C2 (amended): every returned configuration has equal, set target dtypes
\* per operand, and a call given different explicit dtypes for an operand
\* fails: with that operand's 'must be cast to the same dtype' error, unless
\* the FSDP/granularity check or the same check of an operand earlier in the
\* order input, weight, grad_output fails first, and then with that error.
C2_SameDtypeOrEarlierError ==
    /\ SameDtypeReturned
    /\ IsConstruct =>
          \A o \in Operands :
              ExplicitMismatch(o) =>
                  last.error \in {SameDtypeError(o), FsdpError}
                      \cup {SameDtypeError(e) : e \in EarlierOperands(o)}

\* a call given different explicit dtypes for weight failed on weight
C2_Witness ==
    /\ IsConstruct
    /\ ExplicitMismatch("weight")
    /\ last.error = SameDtypeError("weight")

\* C3: a constructor call fails on the FSDP/granularity check exactly when
\* the weight primary descriptor is not TENSORWISE and
\* enable_fsdp_float8_all_gather is set, whatever the other descriptors are.
C3_FsdpCheckOnWeightOnly ==
    IsConstruct =>
        (last.error = FsdpError
            <=> /\ last.supplied.cast_config_weight.scaling_granularity # TENSORWISE
                /\ last.enable_fsdp_float8_all_gather)

\* a call failed on the FSDP check
C3_Witness == IsConstruct /\ last.error = FsdpError

\* C4: CastConfig(...) succeeds iff (granularity is TENSORWISE or scaling type
\* is DYNAMIC) and (target_dtype is None or a 1-byte floating-point dtype).
C4_CastConfigAccepted ==
    last.op = "CastConfig" =>
        (last.error = ""
            <=> /\ \/ last.scaling_granularity = TENSORWISE
                   \/ last.scaling_type = DYNAMIC
                /\ \/ last.target_dtype = None
                   \/ last.target_dtype \in {"float8_e4m3fn", "float8_e5m2",
                                             "float8_e4m3fnuz", "float8_e5m2fnuz"})

\* AXISWISE with DISABLED was refused
C4_Witness ==
    /\ last.op = "CastConfig"
    /\ last.scaling_granularity = AXISWISE
    /\ last.scaling_type = DISABLED
    /\ last.target_dtype = None
    /\ last.error # ""

\* C5 (as claimed): after a constructor call, failed or not, every CastConfig
\* object passed in has the fields it had when the call was made.
C5_ArgumentsUntouched ==
    IsConstruct =>
        \A f \in CastFields :
            last.kwargs[f] # NoRef => heap[last.kwargs[f]] = last.supplied[f]

\* C9 (as claimed): in a returned configuration, an operand whose primary
\* descriptor was passed with target_dtype unset, and whose override was left
\* out or passed unset too, has the platform default of the operand in both.
C9_UnsetResolvesToPlatformDefault ==
    (IsConstruct /\ last.error = "") =>
        \A o \in Operands :
            (/\ last.kwargs[PrimaryOf(o)] # NoRef
             /\ GivenFor(PrimaryOf(o)).target_dtype = None
             /\ GivenFor(OverrideOf(o)).target_dtype = None)
            => /\ last.returned[1][PrimaryOf(o)].target_dtype = PlatformDefault(o)
               /\ last.returned[1][OverrideOf(o)].target_dtype = PlatformDefault(o)

\* the member a recipe string is the value of
MemberOfString(s) ==
    CASE s = "tensorwise" -> "TENSORWISE"
      [] s = "rowwise" -> "ROWWISE"
      [] s = "rowwise_with_gw_hp" -> "ROWWISE_WITH_GW_HP"

RecipeStrings == {"tensorwise", "rowwise", "rowwise_with_gw_hp"}

\* the four invariants of a configuration, on its descriptors d
FourInvariants(d, fsdp) ==
    /\ d.cast_config_weight.scaling_granularity # TENSORWISE => ~fsdp
    /\ \A g \in Gemms :
          (d[GemmOperands(g)[1]].scaling_type = DISABLED)
              = (d[GemmOperands(g)[2]].scaling_type = DISABLED)
    /\ \A o \in Operands :
          d[PrimaryOf(o)].target_dtype = d[OverrideOf(o)].target_dtype
    /\ \A f \in CastFields :
          d[f].target_dtype \in {"float8_e4m3fn", "float8_e5m2",
                                 "float8_e4m3fnuz", "float8_e5m2fnuz"}

\* C6: from_recipe_name returns, for every recipe and without error, a
\* configuration that satisfies the four invariants, and for the string of a
\* recipe the configuration it returns for the enum member.
C6_RecipesValid ==
    [][ (/\ last'.op = "from_recipe_name"
         /\ \/ last'.recipe_name.type = "Float8LinearRecipeName"
            \/ /\ last'.recipe_name.type = "str"
               /\ last'.recipe_name.v \in RecipeStrings)
        => /\ last'.error = ""
           /\ Len(last'.returned) = 1
           /\ FourInvariants(last'.returned[1], last'.enable_fsdp_float8_all_gather)
           /\ last'.recipe_name.type = "str" =>
                 LET e == FromRecipeNameResult(
                              heap, EnumArg(MemberOfString(last'.recipe_name.v)))
                 IN  /\ e.error = ""
                     /\ Descriptors(e.heap, e.result[1]) = last'.returned[1]
                     /\ e.result[1].round_scales_to_power_of_2
                            = last'.round_scales_to_power_of_2
                     /\ e.result[1].enable_fsdp_float8_all_gather
                            = last'.enable_fsdp_float8_all_gather
      ]_vars

\* the gw_hp recipe was made from its string
C6_Witness ==
    /\ IsRecipeCall
    /\ last.recipe_name = StrArg("rowwise_with_gw_hp")
    /\ last.error = ""
    /\ last.returned[1].cast_config_input_for_grad_weight.scaling_type = DISABLED

\* C7: from_recipe_name with a string that is no member's value fails, returns
\* nothing and lists exactly the three valid names; with a member's value it
\* does not fail on the name check.
C7_UnknownRecipeString ==
    (IsRecipeCall /\ last.recipe_name.type = "str") =>
        IF last.recipe_name.v \in RecipeStrings
        THEN last.error # "recipe_name not in valid names"
        ELSE /\ last.error = "recipe_name not in valid names"
             /\ last.returned = << >>
             /\ Len(last.valid_names) = 3
             /\ Range(last.valid_names) = RecipeStrings

\* an unknown recipe string was refused
C7_Witness ==
    /\ IsRecipeCall
    /\ last.recipe_name = StrArg("not_a_real_recipe")
    /\ last.error = "recipe_name not in valid names"

\* C8: __post_init__ run again on a constructed configuration succeeds and
\* changes neither the configuration nor any descriptor.
C8_PostInitIdempotent ==
    [][ last'.op = "__post_init__"
        => /\ last'.error = ""
           /\ configs' = configs
           /\ heap' = heap ]_vars

\* the pass was run again on a configuration with an override of its own
C8_Witness ==
    /\ last.op = "__post_init__"
    /\ last.error = ""
    /\ \E o \in Operands :
          configs[last.index][PrimaryOf(o)] # configs[last.index][OverrideOf(o)]

\* C10: no step changes a field of a constructed configuration or of one of
\* its six descriptors.
C10_ConstructedConfigsFrozen ==
    [][ \A i \in DOMAIN configs :
            /\ i \in DOMAIN configs'
            /\ configs'[i] = configs[i]
            /\ \A f \in CastFields : heap'[configs[i][f]] = heap[configs[i][f]]
      ]_vars

\* a second configuration was constructed on a descriptor of the first
C10_Witness ==
    /\ Len(configs) = 2
    /\ IsConstruct
    /\ last.error = ""
    /\ \E f, g \in CastFields :
          /\ configs[1][f] = configs[2][g]
          /\ configs[1][f] \in Range(locals)

====
